---- MODULE Spec2Model ----
(***************************************************************************)
(* bevy_wizard_battles: a two-player rollback-networked Bevy game.         *)
(*                                                                         *)
(* The model follows src/main.rs: the application state machine            *)
(* (AssetLoading -> Matchmaking -> InGame), the matchmaking poll           *)
(* wait_for_players, the entities spawn_player creates, the four systems   *)
(* of the GgrsSchedule, and the save / load / resimulate cycle the         *)
(* GgrsPlugin drives over the components main() registers for rollback.    *)
(*                                                                         *)
(* The world is an ECS: an entity is a record whose DOMAIN is the set of   *)
(* components it carries; a system acts on the entities that carry every   *)
(* component of its query.                                                 *)
(*                                                                         *)
(* Positions are integers in units of 1/Unit of a world unit, Unit being   *)
(* the tick rate, so that speed * delta_seconds is a whole number.         *)
(* Float rounding is not modelled.                                         *)
(***************************************************************************)
EXTENDS Integers, Sequences, FiniteSets, TLC

VARIABLES
    gameState,      \* State<GameState>
    nextState,      \* NextState<GameState>: "none" or the state asked for
    channel,        \* the socket's channel 0: "none" (no socket), "open", "taken"
    connected,      \* peer ids the socket currently sees connected
    ids,            \* [me |-> PeerId, other |-> PeerId] of this run
    session,        \* players of the P2P session, <<>> while there is none
    sessionsMade,   \* how many sessions were started
    world,          \* the rollback entities, in spawn order
    frame,          \* number of the next frame to simulate
    localIn,        \* this peer's inputs, one per simulated frame
    remoteIn,       \* the remote peer's confirmed inputs, in frame order
    used,           \* per simulated frame the input vector last used for it
    snapshots,      \* per simulated frame the snapshot saved before it
    savedWorld,     \* history: per simulated frame the full world when it was saved
    firstIncorrect, \* first frame simulated with a wrong prediction, or NoFrame
    rolledBack      \* history: whether a rollback has been carried out

vars == <<gameState, nextState, channel, connected, ids, session, sessionsMade,
          world, frame, localIn, remoteIn, used, snapshots, savedWorld,
          firstIncorrect, rolledBack>>

matchVars == <<channel, connected, session, sessionsMade>>
simVars == <<world, frame, localIn, remoteIn, used, snapshots, savedWorld,
             firstIncorrect, rolledBack>>

----------------------------------------------------------------------------
(* Bounds and program constants *)

MaxFrame == 2

MAP_SIZE == 41
Unit == 60
move_speed == 7
bullet_speed == 20
num_players == 2
RoomSize == 2

NoFrame == 0 - 1

PeerIds == 1..2

----------------------------------------------------------------------------
(* input.rs (not in src/): the input byte, 4 direction bits and a fire bit *)

INPUT_UP == 1
INPUT_DOWN == 2
INPUT_LEFT == 4
INPUT_RIGHT == 8
INPUT_FIRE == 16

Bit(input, mask) == (input \div mask) % 2

direction(input) ==
    << Bit(input, INPUT_RIGHT) - Bit(input, INPUT_LEFT),
       Bit(input, INPUT_UP) - Bit(input, INPUT_DOWN) >>

fire(input) == Bit(input, INPUT_FIRE) = 1

\* The input bytes the model draws from: idle, a move, a shot, a move with a
\* shot.  Diagonals are left out: their unit vector is irrational.
Inputs == {0, INPUT_RIGHT, INPUT_FIRE, INPUT_UP + INPUT_FIRE}

\* Vec2::normalize_or_zero on the axis-aligned vectors direction() yields for
\* the bytes of Inputs: the zero vector stays zero, a vector along one axis
\* becomes the unit vector of that axis.
Sgn(x) == IF x > 0 THEN 1 ELSE IF x < 0 THEN -1 ELSE 0
normalize_or_zero(v) == <<Sgn(v[1]), Sgn(v[2])>>

----------------------------------------------------------------------------
(* ECS helpers *)

Has(e, comps) == comps \subseteq DOMAIN e

IterOrders == {"asc", "desc"}
Order(w, iter) ==
    IF iter = "asc" THEN [i \in 1..Len(w) |-> i]
    ELSE [i \in 1..Len(w) |-> Len(w) + 1 - i]

Range(s) == {s[i] : i \in DOMAIN s}

----------------------------------------------------------------------------
(* spawn_player: the two entities created on entering InGame *)

\* Variant: the players also carry a MoveDir, as the queries of move_players
\* and fire_bullets ask for.
spawn_player_with_move_dir ==
    << [Player |-> 0, BulletReady |-> TRUE, Transform |-> <<-2 * Unit, 0>>,
        MoveDir |-> <<-1, 0>>],
       [Player |-> 1, BulletReady |-> TRUE, Transform |-> <<2 * Unit, 0>>,
        MoveDir |-> <<-1, 0>>] >>

\* Variant: the players are placed outside the arena.
spawn_player_outside ==
    << [Player |-> 0, BulletReady |-> TRUE, Transform |-> <<-22 * Unit, 0>>],
       [Player |-> 1, BulletReady |-> TRUE, Transform |-> <<22 * Unit, 0>>] >>

\* Variant: both players are spawned with handle 0.
spawn_player_same_handle ==
    << [Player |-> 0, BulletReady |-> TRUE, Transform |-> <<-2 * Unit, 0>>],
       [Player |-> 0, BulletReady |-> TRUE, Transform |-> <<2 * Unit, 0>>] >>

\* The players as the code spawns them: Player, BulletReady and the
\* SpriteBundle's Transform, and no MoveDir.
spawn_player ==
    << [Player |-> 0, BulletReady |-> TRUE, Transform |-> <<-2 * Unit, 0>>],
       [Player |-> 1, BulletReady |-> TRUE, Transform |-> <<2 * Unit, 0>>] >>

----------------------------------------------------------------------------
(* The systems of the GgrsSchedule *)

\* Variant: the input is taken by position in the iteration instead of by
\* player.handle, and the flag is written on every tick.
reload_bullet_by_position(w, inputs, iter) ==
    LET order == Order(w, iter)
        pos(i) == CHOOSE k \in DOMAIN order : order[k] = i
    IN [i \in 1..Len(w) |->
          IF Has(w[i], {"BulletReady", "Player"})
          THEN [w[i] EXCEPT !.BulletReady = ~fire(inputs[pos(i)])]
          ELSE w[i]]

\* reload_bullet: Query<(&mut BulletReady, &Player)>
RECURSIVE reload_bullet_loop(_, _, _)
reload_bullet_loop(w, inputs, order) ==
    IF order = <<>> THEN w
    ELSE LET i == Head(order)
             e == w[i]
         IN IF Has(e, {"BulletReady", "Player"}) /\ ~fire(inputs[e.Player + 1])
            THEN reload_bullet_loop([w EXCEPT ![i].BulletReady = TRUE], inputs, Tail(order))
            ELSE reload_bullet_loop(w, inputs, Tail(order))

reload_bullet(w, inputs, iter) == reload_bullet_loop(w, inputs, Order(w, iter))

\* move_bullet: Query<(&mut Transform, &MoveDir), With<Bullet>>
RECURSIVE move_bullet_loop(_, _)
move_bullet_loop(w, order) ==
    IF order = <<>> THEN w
    ELSE LET i == Head(order)
             e == w[i]
         IN IF Has(e, {"Transform", "MoveDir", "Bullet"})
            THEN move_bullet_loop(
                    [w EXCEPT ![i].Transform =
                        << @[1] + e.MoveDir[1] * bullet_speed,
                           @[2] + e.MoveDir[2] * bullet_speed >>],
                    Tail(order))
            ELSE move_bullet_loop(w, Tail(order))

move_bullet(w, iter) == move_bullet_loop(w, Order(w, iter))

\* Variant: a projectile for every player entity whose fire bit is set,
\* whatever its weapon-ready flag.
fire_bullets_held(w, inputs, iter) ==
    LET order == Order(w, iter)
        shooters == SelectSeq(order, LAMBDA i :
                        Has(w[i], {"Transform", "Player"}) /\ fire(inputs[w[i].Player + 1]))
    IN w \o [k \in 1..Len(shooters) |->
                [Bullet |-> TRUE, MoveDir |-> <<1, 0>>,
                 Transform |-> w[shooters[k]].Transform]]

\* fire_bullets: Query<(&Transform, &Player, &mut BulletReady, &MoveDir)>.
\* The spawn commands are queued in iteration order and applied when the
\* system has run.
RECURSIVE fire_bullets_loop(_, _, _, _)
fire_bullets_loop(w, inputs, order, spawned) ==
    IF order = <<>> THEN w \o spawned
    ELSE LET i == Head(order)
             e == w[i]
         IN IF Has(e, {"Transform", "Player", "BulletReady", "MoveDir"})
               /\ fire(inputs[e.Player + 1]) /\ e.BulletReady
            THEN fire_bullets_loop(
                    [w EXCEPT ![i].BulletReady = FALSE], inputs, Tail(order),
                    Append(spawned, [Bullet |-> TRUE, MoveDir |-> e.MoveDir,
                                     Transform |-> e.Transform]))
            ELSE fire_bullets_loop(w, inputs, Tail(order), spawned)

fire_bullets(w, inputs, iter) == fire_bullets_loop(w, inputs, Order(w, iter), <<>>)

\* move_players: Query<(&mut Transform, &mut MoveDir, &Player)>
clamp(v, lo, hi) == IF v < lo THEN lo ELSE IF v > hi THEN hi ELSE v

limit == (MAP_SIZE * Unit) \div 2 - Unit \div 2

\* Variant: every player entity is matched, with or without a MoveDir, and
\* the decoded direction is stored before it is tested for zero.
move_players_stores_first(w, inputs, iter) ==
    [i \in 1..Len(w) |->
       IF ~Has(w[i], {"Transform", "Player"}) THEN w[i]
       ELSE LET dir == normalize_or_zero(direction(inputs[w[i].Player + 1]))
            IN [c \in DOMAIN w[i] \cup {"MoveDir"} |->
                  IF c = "MoveDir" THEN dir
                  ELSE IF c = "Transform"
                  THEN << clamp(w[i].Transform[1] + dir[1] * move_speed, -limit, limit),
                          clamp(w[i].Transform[2] + dir[2] * move_speed, -limit, limit) >>
                  ELSE w[i][c]]]

RECURSIVE move_players_loop(_, _, _)
move_players_loop(w, inputs, order) ==
    IF order = <<>> THEN w
    ELSE LET i == Head(order)
             e == w[i]
         IN IF ~Has(e, {"Transform", "MoveDir", "Player"})
            THEN move_players_loop(w, inputs, Tail(order))
            ELSE LET dir == normalize_or_zero(direction(inputs[e.Player + 1]))
                 IN IF dir = <<0, 0>>
                    THEN move_players_loop(w, inputs, Tail(order))
                    ELSE move_players_loop(
                            [w EXCEPT ![i].MoveDir = dir,
                                      ![i].Transform =
                                        << clamp(@[1] + dir[1] * move_speed, -limit, limit),
                                           clamp(@[2] + dir[2] * move_speed, -limit, limit) >>],
                            inputs, Tail(order))

move_players(w, inputs, iter) == move_players_loop(w, inputs, Order(w, iter))

\* One run of the GgrsSchedule.  move_players and reload_bullet are not
\* ordered against each other; fire_bullets runs after both and move_bullet
\* after fire_bullets.
Schedules == {"move_first", "reload_first"}

GgrsSchedule(w, inputs, sched, iter) ==
    LET w2 == IF sched = "move_first"
              THEN reload_bullet(move_players(w, inputs, iter), inputs, iter)
              ELSE move_players(reload_bullet(w, inputs, iter), inputs, iter)
    IN move_bullet(fire_bullets(w2, inputs, iter), iter)

----------------------------------------------------------------------------
(* Rollback: the components main() registers, and the plugin's save / load *)

RollbackComponents == {"Transform", "BulletReady"}

\* The snapshot of a frame: of every rollback entity, the registered
\* components it carries.
SaveWorld(w) ==
    [i \in 1..Len(w) |->
        [c \in (DOMAIN w[i]) \cap RollbackComponents |-> w[i][c]]]

\* Loading a snapshot: entities spawned after it are despawned; on the others
\* every registered component takes its saved value (or is removed when the
\* snapshot has none); components that are not registered stay as they are.
LoadWorld(w, snap) ==
    [i \in 1..Len(snap) |->
        [c \in ((DOMAIN w[i]) \ RollbackComponents) \cup DOMAIN snap[i] |->
            IF c \in DOMAIN snap[i] THEN snap[i][c] ELSE w[i][c]]]

----------------------------------------------------------------------------
(* Matchmaking *)

\* Variant: the loading state continues to InGame.
continue_to_state_in_game == "InGame"

\* LoadingState::new(AssetLoading).continue_to_state(Matchmaking)
continue_to_state == "Matchmaking"

Min(S) == CHOOSE x \in S : \A y \in S : x <= y

RECURSIVE SortedIds(_)
SortedIds(S) == IF S = {} THEN <<>> ELSE <<Min(S)>> \o SortedIds(S \ {Min(S)})

\* socket.players(): the connected peers and this peer, in ascending PeerId
\* order, this peer as Local and the others as Remote.
players(me, conn) ==
    LET sorted == SortedIds(conn \cup {me})
    IN [i \in 1..Len(sorted) |->
          [kind |-> IF sorted[i] = me THEN "Local" ELSE "Remote", id |-> sorted[i]]]

\* Variant: the local player always gets handle 0.
add_players_local_first(ps) ==
    [i \in 1..Len(ps) |->
        [handle |-> IF ps[i].kind = "Local" THEN 0 ELSE 1,
         kind |-> ps[i].kind, id |-> ps[i].id]]

\* add_player(player, i) over players.into_iter().enumerate()
add_players(ps) ==
    [i \in 1..Len(ps) |-> [handle |-> i - 1, kind |-> ps[i].kind, id |-> ps[i].id]]

LocalHandle == session[CHOOSE i \in DOMAIN session : session[i].kind = "Local"].handle

InputVector(l, r) == [h \in 1..num_players |-> IF h - 1 = LocalHandle THEN l ELSE r]

----------------------------------------------------------------------------
(* The session's input handling *)

\* The remote input used for frame f: the confirmed one when it has arrived,
\* else the prediction, the last confirmed input held (blank before any).
RemoteInputFor(f, confirmed) ==
    IF f < Len(confirmed) THEN confirmed[f + 1]
    ELSE IF confirmed = <<>> THEN 0
    ELSE confirmed[Len(confirmed)]

\* Resimulation of frames f .. frame-1 from world w: each frame is saved anew
\* and advanced with the best-known inputs.
RECURSIVE Resimulate(_, _, _, _, _, _, _)
Resimulate(w, f, snaps, saved, usedIn, sched, iter) ==
    IF f >= frame
    THEN [world |-> w, snapshots |-> snaps, savedWorld |-> saved, used |-> usedIn]
    ELSE LET inputs == InputVector(localIn[f + 1], RemoteInputFor(f, remoteIn))
         IN Resimulate(GgrsSchedule(w, inputs, sched, iter), f + 1,
                       [snaps EXCEPT ![f + 1] = SaveWorld(w)],
                       [saved EXCEPT ![f + 1] = w],
                       [usedIn EXCEPT ![f + 1] = inputs], sched, iter)

----------------------------------------------------------------------------
(* Actions *)

Init ==
    /\ gameState = "AssetLoading"
    /\ nextState = "none"
    /\ channel = "none"
    /\ connected = {}
    /\ ids \in {[me |-> a, other |-> b] : a \in PeerIds, b \in PeerIds} 
    /\ ids.me # ids.other
    /\ session = <<>>
    /\ sessionsMade = 0
    /\ world = <<>>
    /\ frame = 0
    /\ localIn = <<>>
    /\ remoteIn = <<>>
    /\ used = <<>>
    /\ snapshots = <<>>
    /\ savedWorld = <<>>
    /\ firstIncorrect = NoFrame
    /\ rolledBack = FALSE

\* LoadingState::new(AssetLoading) ... continue_to_state(Matchmaking)
LoadAssets ==
    /\ gameState = "AssetLoading"
    /\ nextState = "none"
    /\ nextState' = continue_to_state
    /\ UNCHANGED <<gameState, ids>>
    /\ UNCHANGED matchVars
    /\ UNCHANGED simVars

\* The StateTransition schedule: the state asked for becomes the state and
\* its OnEnter systems run (start_matchbox_socket, spawn_player).
StateTransition ==
    /\ nextState # "none"
    /\ gameState' = nextState
    /\ nextState' = "none"
    /\ channel' = IF nextState = "Matchmaking" THEN "open" ELSE channel
    /\ world' = IF nextState = "InGame" THEN world \o spawn_player ELSE world
    /\ UNCHANGED <<ids, connected, session, sessionsMade, frame, localIn, remoteIn,
                   used, snapshots, savedWorld, firstIncorrect, rolledBack>>

\* The signalling server pairs the peers of a room of RoomSize.
PeerConnect ==
    /\ channel = "open"
    /\ ids.other \notin connected
    /\ Cardinality(connected) + 1 < RoomSize
    /\ connected' = connected \cup {ids.other}
    /\ UNCHANGED <<gameState, nextState, ids, channel, session, sessionsMade>>
    /\ UNCHANGED simVars

PeerDisconnect ==
    /\ channel = "open"
    /\ connected # {}
    /\ connected' = {}
    /\ UNCHANGED <<gameState, nextState, ids, channel, session, sessionsMade>>
    /\ UNCHANGED simVars

\* Variant: the session is started without waiting for num_players players.
wait_for_players_any_count ==
    /\ gameState = "Matchmaking"
    /\ IF channel # "open"
       THEN UNCHANGED <<nextState, channel, session, sessionsMade>>
       ELSE /\ session' = add_players(players(ids.me, connected))
            /\ channel' = "taken"
            /\ sessionsMade' = sessionsMade + 1
            /\ nextState' = "InGame"
    /\ UNCHANGED <<gameState, ids, connected>>
    /\ UNCHANGED simVars

\* Variant: without the early return on a channel that was already taken.
wait_for_players_every_poll ==
    /\ gameState = "Matchmaking"
    /\ LET ps == players(ids.me, connected)
       IN IF Len(ps) < num_players
          THEN UNCHANGED <<nextState, channel, session, sessionsMade>>
          ELSE /\ session' = add_players(ps)
               /\ channel' = "taken"
               /\ sessionsMade' = sessionsMade + 1
               /\ nextState' = "InGame"
    /\ UNCHANGED <<gameState, ids, connected>>
    /\ UNCHANGED simVars

\* wait_for_players, run in Update while the state is Matchmaking
wait_for_players ==
    /\ gameState = "Matchmaking"
    /\ IF channel # "open"
       THEN UNCHANGED <<nextState, channel, session, sessionsMade>>
       ELSE LET ps == players(ids.me, connected)
            IN IF Len(ps) < num_players
               THEN UNCHANGED <<nextState, channel, session, sessionsMade>>
               ELSE /\ session' = add_players(ps)
                    /\ channel' = "taken"
                    /\ sessionsMade' = sessionsMade + 1
                    /\ nextState' = "InGame"
    /\ UNCHANGED <<gameState, ids, connected>>
    /\ UNCHANGED simVars

\* One advance of the session: the frame is saved, then the GgrsSchedule runs
\* with the local input and the confirmed or predicted remote input.
Tick ==
    /\ gameState = "InGame"
    /\ session # <<>>
    /\ firstIncorrect = NoFrame
    /\ frame < MaxFrame
    /\ \E l \in Inputs, sched \in Schedules, iter \in IterOrders :
         LET inputs == InputVector(l, RemoteInputFor(frame, remoteIn))
         IN /\ world' = GgrsSchedule(world, inputs, sched, iter)
            /\ used' = Append(used, inputs)
            /\ localIn' = Append(localIn, l)
    /\ snapshots' = Append(snapshots, SaveWorld(world))
    /\ savedWorld' = Append(savedWorld, world)
    /\ frame' = frame + 1
    /\ UNCHANGED <<gameState, nextState, ids, remoteIn, firstIncorrect, rolledBack>>
    /\ UNCHANGED matchVars

\* The remote peer's input for its next frame arrives; a frame that was
\* simulated with another value is marked for rollback.
ReceiveInput ==
    /\ gameState = "InGame"
    /\ session # <<>>
    /\ Len(remoteIn) < MaxFrame
    /\ \E r \in Inputs :
         LET f == Len(remoteIn)
         IN /\ remoteIn' = Append(remoteIn, r)
            /\ firstIncorrect' =
                 IF firstIncorrect = NoFrame /\ f < frame
                    /\ used[f + 1] # InputVector(localIn[f + 1], r)
                 THEN f ELSE firstIncorrect
    /\ UNCHANGED <<gameState, nextState, ids, world, frame, localIn, used,
                   snapshots, savedWorld, rolledBack>>
    /\ UNCHANGED matchVars

\* Rollback: the snapshot of the first incorrect frame is loaded and the
\* frames from it to the current one are simulated again.
Rollback ==
    /\ firstIncorrect # NoFrame
    /\ \E sched \in Schedules, iter \in IterOrders :
         LET r == Resimulate(LoadWorld(world, snapshots[firstIncorrect + 1]),
                             firstIncorrect, snapshots, savedWorld, used, sched, iter)
         IN /\ world' = r.world
            /\ snapshots' = r.snapshots
            /\ savedWorld' = r.savedWorld
            /\ used' = r.used
    /\ firstIncorrect' = NoFrame
    /\ rolledBack' = TRUE
    /\ UNCHANGED <<gameState, nextState, ids, frame, localIn, remoteIn>>
    /\ UNCHANGED matchVars

Next ==
    \/ LoadAssets
    \/ StateTransition
    \/ PeerConnect
    \/ PeerDisconnect
    \/ wait_for_players
    \/ Tick
    \/ ReceiveInput
    \/ Rollback

Spec == Init /\ [][Next]_vars

----------------------------------------------------------------------------
(* Views used by the properties *)

\* The simulation state: the entities with all their components, as a bag
\* (an entity's identity is not part of it).
SimState(w) == [v \in Range(w) |-> Cardinality({i \in DOMAIN w : w[i] = v})]

\* Two worlds hold the same simulation state.
SameSimState(w1, w2) == w1 = w2 \/ SimState(w1) = SimState(w2)

\* The true input vector of frame f, once the remote input is confirmed.
TrueInputs(f) == InputVector(localIn[f + 1], remoteIn[f + 1])

\* The world after frames f .. n-1 simulated from w with the true inputs.
RECURSIVE Replay(_, _, _)
Replay(w, f, n) ==
    IF f >= n THEN w
    ELSE Replay(GgrsSchedule(w, TrueInputs(f), "move_first", "asc"), f + 1, n)

AllConfirmed == firstIncorrect = NoFrame /\ Len(remoteIn) >= frame

\* The world after frame f as it was last simulated (f in 0 .. frame-1).
After(f) == IF f + 1 < frame THEN savedWorld[f + 2] ELSE world

PlayerOf(w, h) == w[CHOOSE i \in DOMAIN w : Has(w[i], {"Player"}) /\ w[i].Player = h]

Handles == 0..(num_players - 1)

----------------------------------------------------------------------------
(* C1: rollback equivalence.  Whenever every simulated frame has its        *)
(* confirmed remote input and no rollback is pending, the world (players'   *)
(* position, move direction and weapon-ready flag, projectiles' position    *)
(* and direction) equals the world obtained by simulating all frames from   *)
(* the spawned players with the true inputs, also after frames were first   *)
(* simulated with predicted inputs and then rolled back and resimulated.    *)
C1_RollbackEquivalence ==
    (gameState = "InGame" /\ AllConfirmed)
        => SameSimState(world, Replay(spawn_player, 0, frame))

C1_Witness ==
    /\ gameState = "InGame"
    /\ rolledBack
    /\ AllConfirmed
    /\ frame >= 2
    /\ \E f \in 1..frame : fire(localIn[f])
    /\ \E f \in 1..frame : direction(remoteIn[f]) # <<0, 0>>

(* C2: snapshot round trip.  Loading the snapshot of any saved frame into   *)
(* the current world gives back the world as it was when the frame was      *)
(* saved, in every component, whatever ticks ran since.                     *)
C2_SnapshotRoundTrip ==
    \A f \in 1..Len(snapshots) :
        SameSimState(LoadWorld(world, snapshots[f]), savedWorld[f])

C2_Witness ==
    /\ rolledBack
    /\ Len(snapshots) >= 2
    /\ frame >= 2
    /\ \E f \in 1..frame : \E h \in 1..num_players : used[f][h] # 0

(* C3: every player's x and y lie in [-limit, limit], where                 *)
(* limit = MAP_SIZE/2 - 0.5, in every reachable state.                      *)
C3_PlayersInArena ==
    \A i \in DOMAIN world :
        Has(world[i], {"Player", "Transform"}) =>
            /\ 2 * world[i].Transform[1] >= -(MAP_SIZE * Unit - Unit)
            /\ 2 * world[i].Transform[1] <= MAP_SIZE * Unit - Unit
            /\ 2 * world[i].Transform[2] >= -(MAP_SIZE * Unit - Unit)
            /\ 2 * world[i].Transform[2] <= MAP_SIZE * Unit - Unit

C3_Witness ==
    /\ gameState = "InGame"
    /\ frame >= 2
    /\ rolledBack
    /\ \A h \in 1..num_players : \E f \in 1..frame : direction(used[f][h]) # <<0, 0>>
    /\ \E i \in DOMAIN world : Has(world[i], {"Player", "Transform"})

(* C4: on a tick where a player's fire bit is set and its weapon-ready flag *)
(* is true, exactly one projectile is spawned for that player, at the       *)
(* player's position (as spawned, or advanced once by move_bullet) with the *)
(* player's move direction, and the flag becomes false; on a tick without   *)
(* the fire bit the flag is true afterwards.                                *)
C4_FireSpawnsProjectile ==
    gameState = "InGame" =>
      \A f \in 0..(frame - 1) :
        LET b == savedWorld[f + 1]
            a == After(f)
            in == used[f + 1]
            firing == {h \in Handles : fire(in[h + 1]) /\ PlayerOf(b, h).BulletReady}
        IN /\ Len(a) = Len(b) + Cardinality(firing)
           /\ \A h \in firing :
                LET p == PlayerOf(a, h)
                IN /\ ~p.BulletReady
                   /\ Has(p, {"MoveDir"})
                   /\ \E i \in (Len(b) + 1)..Len(a) :
                        /\ Has(a[i], {"Bullet", "MoveDir", "Transform"})
                        /\ a[i].MoveDir = p.MoveDir
                        /\ a[i].Transform \in
                             { p.Transform,
                               << p.Transform[1] + p.MoveDir[1] * bullet_speed,
                                  p.Transform[2] + p.MoveDir[2] * bullet_speed >> }
           /\ \A h \in Handles : ~fire(in[h + 1]) => PlayerOf(a, h).BulletReady

(* C5: from the spawned players (handle 0 at (-2,0), handle 1 at (2,0),     *)
(* both weapon-ready), the first tick moves a player whose input has a      *)
(* direction and no fire by move_speed * dt along it (clamped), makes that  *)
(* direction its move direction and leaves the flag true.                   *)
C5_FirstTickMoves ==
    (gameState = "InGame" /\ frame >= 1) =>
      /\ PlayerOf(savedWorld[1], 0).Transform = <<-2 * Unit, 0>>
      /\ PlayerOf(savedWorld[1], 1).Transform = <<2 * Unit, 0>>
      /\ \A h \in Handles :
           LET in == used[1][h + 1]
               dir == normalize_or_zero(direction(in))
               b == PlayerOf(savedWorld[1], h)
               a == PlayerOf(After(0), h)
           IN /\ b.BulletReady
              /\ (dir # <<0, 0>> /\ ~fire(in)) =>
                   /\ a.Transform =
                        << clamp(b.Transform[1] + dir[1] * move_speed, -limit, limit),
                           clamp(b.Transform[2] + dir[2] * move_speed, -limit, limit) >>
                   /\ Has(a, {"MoveDir"})
                   /\ a.MoveDir = dir
                   /\ a.BulletReady

C7_ForwardOnly ==
    [][ gameState' # gameState =>
          <<gameState, gameState'>> \in
             { <<"AssetLoading", "Matchmaking">>, <<"Matchmaking", "InGame">> } ]_vars

C7_Witness ==
    /\ gameState = "InGame"
    /\ sessionsMade = 1
    /\ frame >= 1

(* C8: the session this peer builds and the session the other peer builds   *)
(* from the same two-peer set give every peer the same handle, the handles  *)
(* are 0 and 1, and each side has exactly one local player, itself.         *)
HandleOf(sess, peer) == sess[CHOOSE i \in DOMAIN sess : sess[i].id = peer].handle

Locals(sess) == {i \in DOMAIN sess : sess[i].kind = "Local"}

C8_SameHandles ==
    session # <<>> =>
      LET mine == session
          theirs == add_players(players(ids.other, {ids.me}))
      IN /\ Len(mine) = 2 /\ Len(theirs) = 2
         /\ \A p \in {ids.me, ids.other} : HandleOf(mine, p) = HandleOf(theirs, p)
         /\ {HandleOf(mine, ids.me), HandleOf(mine, ids.other)} = {0, 1}
         /\ Cardinality(Locals(mine)) = 1
         /\ Cardinality(Locals(theirs)) = 1
         /\ \A i \in Locals(mine) : mine[i].id = ids.me
         /\ \A i \in Locals(theirs) : theirs[i].id = ids.other

C8_Witness ==
    /\ session # <<>>
    /\ ids.me > ids.other
    /\ LocalHandle = 1
    /\ gameState = "InGame"

(* C9: single shot per trigger.  A tick spawns at most one projectile for   *)
(* each player whose fire bit is set in it and was not set in the tick      *)
(* before (so a run of ticks with fire held spawns at most one, and two     *)
(* spawns of a player have a tick without fire between them); the           *)
(* weapon-ready flag goes from false to true only in a tick without fire.   *)
FireRunStart(f, h) ==
    fire(used[f + 1][h + 1]) /\ (f = 0 \/ ~fire(used[f][h + 1]))

C9_SingleShot ==
    gameState = "InGame" =>
      \A f \in 0..(frame - 1) :
        /\ Len(After(f)) - Len(savedWorld[f + 1])
             <= Cardinality({h \in Handles : FireRunStart(f, h)})
        /\ \A h \in Handles :
             (~PlayerOf(savedWorld[f + 1], h).BulletReady /\ PlayerOf(After(f), h).BulletReady)
                => ~fire(used[f + 1][h + 1])

C9_Witness ==
    /\ gameState = "InGame"
    /\ frame >= 2
    /\ \E h \in Handles : fire(used[1][h + 1]) /\ fire(used[2][h + 1])
    /\ \E h \in Handles : ~fire(used[1][h + 1]) /\ fire(used[2][h + 1])

(* C10: one tick is deterministic.  From the same world and the same input  *)
(* vector, every order of move_players and reload_bullet and every order of *)
(* iteration over the entities gives the same simulation state.             *)
InputVectors == {<<a, b>> : a \in Inputs, b \in Inputs}

C10_TickDeterministic ==
    gameState = "InGame" =>
      \A in \in InputVectors :
        LET base == GgrsSchedule(world, in, "move_first", "asc")
        IN \A sched \in Schedules, iter \in IterOrders :
             SameSimState(GgrsSchedule(world, in, sched, iter), base)

C10_Witness ==
    /\ gameState = "InGame"
    /\ frame >= 1
    /\ fire(used[frame][1]) # fire(used[frame][2])
    /\ direction(used[frame][1]) # direction(used[frame][2])

(* C11: within a tick the stages run movement, fire, projectile movement.   *)
(* On a tick where a weapon-ready player's fire bit is set, the tick adds a *)
(* projectile that lies one projectile step, along its own direction, from  *)
(* the position the player has after that tick's movement (spawned at the   *)
(* moved position, advanced once by move_bullet in the same tick); and      *)
(* every entity a tick adds is such a projectile of a firing player.        *)
NewEntities(f) == (Len(savedWorld[f + 1]) + 1)..Len(After(f))

SpawnedAfterMove(f, i, h) ==
    LET e == After(f)[i]
        p == PlayerOf(After(f), h)
    IN /\ Has(e, {"Bullet", "MoveDir", "Transform"})
       /\ fire(used[f + 1][h + 1])
       /\ e.Transform = << p.Transform[1] + e.MoveDir[1] * bullet_speed,
                           p.Transform[2] + e.MoveDir[2] * bullet_speed >>

C12_ZeroDirectionStays ==
    gameState = "InGame" =>
      \A in \in InputVectors, iter \in IterOrders :
        LET moved == move_players(world, in, iter)
        IN \A h \in Handles :
             normalize_or_zero(direction(in[h + 1])) = <<0, 0>> =>
               LET b == PlayerOf(world, h)
                   a == PlayerOf(moved, h)
               IN /\ a.Transform = b.Transform
                  /\ Has(a, {"MoveDir"}) = Has(b, {"MoveDir"})
                  /\ Has(b, {"MoveDir"}) => a.MoveDir = b.MoveDir

C12_Witness ==
    /\ gameState = "InGame"
    /\ frame >= 1
    /\ \E h \in Handles :
         /\ direction(used[frame][h + 1]) = <<0, 0>>
         /\ direction(used[frame][2 - h]) # <<0, 0>>
         /\ PlayerOf(world, h).Transform = PlayerOf(savedWorld[frame], h).Transform

(* C13: a rollback whose first incorrect frame had the remote input         *)
(* predicted with no direction and confirmed with a direction leaves the    *)
(* remote player at the position that simulating from that frame's true     *)
(* state with the confirmed inputs gives, and that position is not the one  *)
(* the prediction had produced (the position before the rollback).          *)
RemoteHandle == 1 - LocalHandle

DirectFrom(f) ==
    Resimulate(savedWorld[f + 1], f, snapshots, savedWorld, used, "move_first", "asc").world

C13_ResimulationCorrects ==
    [][ ( /\ firstIncorrect # NoFrame
          /\ firstIncorrect' = NoFrame
          /\ direction(used[firstIncorrect + 1][RemoteHandle + 1]) = <<0, 0>>
          /\ direction(remoteIn[firstIncorrect + 1]) # <<0, 0>> )
        => /\ PlayerOf(world', RemoteHandle).Transform
                = PlayerOf(DirectFrom(firstIncorrect), RemoteHandle).Transform
           /\ PlayerOf(world', RemoteHandle).Transform
                # PlayerOf(world, RemoteHandle).Transform ]_vars

(* C14: after every tick each player's weapon-ready flag is the negation of *)
(* that player's fire bit in the tick's input: false exactly when fire was  *)
(* requested in the tick, true exactly when it was not.                     *)
C14_ReadyIsNotFire ==
    gameState = "InGame" =>
      \A f \in 0..(frame - 1) : \A h \in Handles :
        PlayerOf(After(f), h).BulletReady = ~fire(used[f + 1][h + 1])

PlayerEntities(w) == {i \in DOMAIN w : Has(w[i], {"Player"})}

C16_TwoPlayers ==
    gameState = "InGame" =>
      /\ Cardinality(PlayerEntities(world)) = num_players
      /\ \A h \in Handles :
           /\ Cardinality({i \in PlayerEntities(world) : world[i].Player = h}) = 1
           /\ h + 1 \in PlayerEntities(world)
           /\ world[h + 1].Player = h

C16_Witness ==
    /\ gameState = "InGame"
    /\ rolledBack
    /\ frame >= 2
    /\ firstIncorrect = NoFrame
    /\ PlayerEntities(world) = {1, 2}

====
